---- MODULE Spec2Model ----
(***************************************************************************)
(* HealthPipeline (src/healthguard.py): the vitals store, the alert store, *)
(* ingest, detect_anomalies and get_patient_summary.                       *)
(*                                                                         *)
(* Numbers.  A reading is an integer number of thousandths (75.0 -> 75000, *)
(* 36.1 -> 36100), so that round(x, 2) and the ".1f" format are real       *)
(* roundings and the deviation test can be done exactly: with              *)
(* dev = n / span, dev > 0 is n > 0 and dev > 0.5 is 2 * n > span.  The    *)
(* inputs stay away from binary-floating-point ties (a temperature whose   *)
(* exact deviation is 0.5, a value ending in ...5 thousandths).            *)
(*                                                                         *)
(* Absent data.  pd.DataFrame(records) fills a key that a dict lacks with  *)
(* NaN, to_sql stores it as SQL NULL and read_sql gives it back as NaN     *)
(* (or None when the whole fetched column is NULL).  NaN stands for all of *)
(* these in a numeric cell and NULL in the patient_id cell.  What pandas   *)
(* does with a fetched column that is NULL in every row depends on how it  *)
(* types the column: as None objects, on which arithmetic raises           *)
(* TypeError, or as NaN floats, which propagate.  Both are kept.           *)
(*                                                                         *)
(* pd is pandas throughout.                                                *)
(***************************************************************************)
EXTENDS Integers, Sequences, FiniteSets, TLC

\* ------------------------------------------------------------- bounds
MaxRecords == 2     \* rows the vitals store may hold
MaxDetects == 2     \* detect_anomalies calls in one behaviour

\* ---------------------------------------------------- program constants
NaN == -1000000
NULL == "<NULL>"

VITALS == <<"heart_rate", "bp_systolic", "bp_diastolic",
            "temperature", "spo2", "resp_rate">>

VITAL_RANGES ==
  [heart_rate   |-> <<60000, 100000>>,
   bp_systolic  |-> <<90000, 140000>>,
   bp_diastolic |-> <<60000, 90000>>,
   temperature  |-> <<36100, 37800>>,
   spo2         |-> <<95000, 100000>>,
   resp_rate    |-> <<12000, 20000>>]

REQUIRED_COLS == <<"patient_id", "heart_rate", "bp_systolic",
                   "bp_diastolic", "temperature", "spo2", "resp_rate">>

\* ------------------------------------------------------------ helpers
IsNaN(x) == x = NaN

Range(s) == {s[i] : i \in DOMAIN s}

Max2(a, b) == IF a >= b THEN a ELSE b

\* Nearest multiple of unit to the rational num / den (den > 0, num >= 0),
\* a tie going to the even multiple: round(x, 2) is unit = 10, ".1f" is 100.
RoundDiv(num, den, unit) ==
  LET d == den * unit
      q == num \div d
      r == num % d
  IN  IF IsNaN(num) THEN NaN
      ELSE IF 2 * r < d THEN q * unit
      ELSE IF 2 * r > d THEN (q + 1) * unit
      ELSE IF q % 2 = 0 THEN q * unit ELSE (q + 1) * unit

Round2(x) == IF IsNaN(x) THEN NaN ELSE RoundDiv(x, 1, 10)

Round1(x) == IF IsNaN(x) THEN NaN ELSE RoundDiv(x, 1, 100)

\* A dict has the key: a key it lacks is held as NaN / NULL.
Has(rec, col) == IF col = "patient_id" THEN rec[col] # NULL ELSE ~IsNaN(rec[col])

\* df.columns of pd.DataFrame(records): the union of the dicts' keys.
Columns(records) ==
  {c \in Range(REQUIRED_COLS) \cup {"timestamp"} :
     \E i \in DOMAIN records : Has(records[i], c)}

\* ------------------------------------------------------------- inputs
\* The test helper make_record: a full in-range record, with overrides.
BaseRecord ==
  [patient_id |-> "P001", timestamp |-> 1,
   heart_rate |-> 98000, bp_systolic |-> 120000, bp_diastolic |-> 80000,
   temperature |-> 36800, spo2 |-> 98000, resp_rate |-> 16000]

make_record(overrides) ==
  [k \in DOMAIN BaseRecord |->
     IF k \in DOMAIN overrides THEN overrides[k] ELSE BaseRecord[k]]

Timestamps == {1, 2}

\* The incoming dicts.
InRange  == make_record([timestamp |-> 2])                       \* all six in range
Warning  == make_record([heart_rate |-> 101004])                 \* rounds to 101.0
Critical == make_record([patient_id |-> "P002", spo2 |-> 92000]) \* dev 0.6
\* {"patient_id": p}: the dict of test_missing_column_raises.
OnlyPatient == [k \in DOMAIN BaseRecord |-> IF k = "patient_id" THEN "P001" ELSE NaN]
NoSpo2      == make_record([heart_rate |-> 101004, spo2 |-> NaN])
NoTimestamp == make_record([timestamp |-> NaN])
NoPatient   == make_record([patient_id |-> NULL, heart_rate |-> 101004])

Dicts == {InRange, Warning, Critical, OnlyPatient, NoSpo2, NoTimestamp, NoPatient}

\* The batches handed to ingest: none, one or two dicts.
Batches ==
  {<<>>} \cup {<<d>> : d \in Dicts}
         \cup {<<d, e>> : d \in {InRange, Critical}, e \in Dicts}

\* patient_id: Optional[str].  <<>> is None, <<p>> is the string p.
None == <<>>
Filters == {None, <<"">>, <<"P001">>, <<"P002">>, <<"PXXX">>}

\* -------------------------------------------------------------- state
VARIABLES
  vitals,       \* table vitals, in rowid order
  alerts,       \* table alerts, in rowid order
  op,           \* the last call: "init", "ingest", "detect", "summary"
  arg,          \* its argument: [batch, patient_id]
  ret,          \* its outcome: [outcome, count, alerts, summary]
  prevVitals,   \* table vitals before the last call
  prevAlerts,   \* table alerts before the last call
  returned,     \* total length of the lists detect_anomalies has returned
  detects       \* detect_anomalies calls so far

vars == <<vitals, alerts, op, arg, ret, prevVitals, prevAlerts, returned, detects>>

NoSummary == [records |-> -1]

Ret(outcome, count, found, summary) ==
  [outcome |-> outcome, count |-> count, alerts |-> found, summary |-> summary]

Raise(exc) == Ret(exc, 0, <<>>, NoSummary)

Arg(batch, patient_id) == [batch |-> batch, patient_id |-> patient_id]

\* HealthPipeline(":memory:"): both tables created, empty.
Init ==
  /\ vitals = <<>>
  /\ alerts = <<>>
  /\ op = "init"
  /\ arg = Arg(<<>>, None)
  /\ ret = Ret("ok", 0, <<>>, NoSummary)
  /\ prevVitals = <<>>
  /\ prevAlerts = <<>>
  /\ returned = 0
  /\ detects = 0

\* ------------------------------------------------------------- to_sql
\* Mutant: if_exists="replace".
to_sql_replace(table, rows) == rows

\* DataFrame.to_sql(table, conn, if_exists="append"): the rows go in after
\* the table's rows, in one transaction.
to_sql(table, rows) == table \o rows

\* ------------------------------------------------------------- ingest
\* The first required column the frame lacks, "" when it has them all.
MissingColumn(records) ==
  LET cols == Columns(records)
      miss == {i \in DOMAIN REQUIRED_COLS : REQUIRED_COLS[i] \notin cols}
  IN  IF miss = {} THEN ""
      ELSE REQUIRED_COLS[CHOOSE i \in miss : \A j \in miss : i <= j]

\* df[REQUIRED_COLS + ["timestamp"]] with df["timestamp"] = now when no dict
\* has a timestamp.
IngestFrame(records, now) ==
  IF "timestamp" \in Columns(records) THEN records
  ELSE [i \in DOMAIN records |-> [records[i] EXCEPT !.timestamp = now]]

Frame(calls) ==
  /\ prevVitals' = vitals
  /\ prevAlerts' = alerts
  /\ detects' = detects + calls

ingest(records) ==
  /\ Len(vitals) + Len(records) <= MaxRecords
  /\ op' = "ingest"
  /\ arg' = Arg(records, None)
  /\ Frame(0)
  /\ UNCHANGED <<alerts, returned>>
  /\ \/ /\ MissingColumn(records) # ""
        /\ ret' = Raise("ValueError")
        /\ UNCHANGED vitals
     \/ /\ MissingColumn(records) = ""
        /\ \E now \in Timestamps :
             /\ vitals' = to_sql(vitals, IngestFrame(records, now))
             /\ ret' = Ret("ok", Len(records), <<>>, NoSummary)
     \/ /\ MissingColumn(records) = ""
        /\ ret' = Raise("StorageError")
        /\ UNCHANGED vitals

\* --------------------------------------------------- detect_anomalies
\* Mutant: the WHERE clause is lost.
SelectAll(table, p) == table

\* "SELECT * FROM vitals WHERE patient_id = ?": SQL equality, which a NULL
\* patient_id never satisfies.
Select(table, p) == SelectSeq(table, LAMBDA row : row.patient_id # NULL /\ row.patient_id = p)

\* if patient_id: -- None and the empty string are both falsy.
Truthy(patient_id) == patient_id # None /\ patient_id[1] # ""

Fetch(table, patient_id) ==
  IF Truthy(patient_id) THEN Select(table, patient_id[1]) ELSE table

\* Mutant: the low side of the range is forgotten.
dev_high_only(val, low, high) ==
  IF IsNaN(val) THEN NaN ELSE Max2(val - high, 0)

\* dev = max((low - val) / span, (val - high) / span, 0), as dev * span.
\* max() of a NaN first argument is NaN.
dev(val, low, high) ==
  IF IsNaN(val) THEN NaN ELSE Max2(Max2(low - val, val - high), 0)

\* Mutant: if dev >= 0.
IsAnomaly_nonneg(d) == ~IsNaN(d) /\ d >= 0

\* if dev > 0 (false of NaN)
IsAnomaly(d) == ~IsNaN(d) /\ d > 0

\* Mutant: dev >= 0.5 is already critical.
severity_at_half(d, span) == IF 2 * d >= span THEN "critical" ELSE "warning"

\* "critical" if dev > 0.5 else "warning", on d = dev * span
severity(d, span) == IF 2 * d > span THEN "critical" ELSE "warning"

\* f"{vital}={val:.1f} outside [{low},{high}]", as its four parts
message(vital, val, low, high) == <<vital, Round1(val), low, high>>

Alert(row, vital) ==
  LET low  == VITAL_RANGES[vital][1]
      high == VITAL_RANGES[vital][2]
      val  == row[vital]
  IN  [patient_id |-> row.patient_id, timestamp |-> row.timestamp,
       vital |-> vital, value |-> Round2(val),
       severity |-> severity(dev(val, low, high), high - low),
       message |-> message(vital, val, low, high)]

\* for _, row in df.iterrows(): the alerts of one vital, rows i.. of df
RECURSIVE RowAlerts(_, _, _)
RowAlerts(df, vital, i) ==
  IF i > Len(df) THEN <<>>
  ELSE LET row == df[i]
           d   == dev(row[vital], VITAL_RANGES[vital][1], VITAL_RANGES[vital][2])
       IN  (IF IsAnomaly(d) THEN <<Alert(row, vital)>> ELSE <<>>)
             \o RowAlerts(df, vital, i + 1)

\* for vital, (low, high) in VITAL_RANGES.items(): vitals k..upto
RECURSIVE ScanAlerts(_, _, _)
ScanAlerts(df, k, upto) ==
  IF k > upto THEN <<>>
  ELSE RowAlerts(df, VITALS[k], 1) \o ScanAlerts(df, k + 1, upto)

\* A fetched column that is NULL in every row comes back as None objects,
\* on which (low - val) raises TypeError.  The first such vital, 0 if none.
NoneColumn(df) ==
  LET bad == {k \in DOMAIN VITALS : \A i \in DOMAIN df : IsNaN(df[i][VITALS[k]])}
  IN  IF df = <<>> \/ bad = {} THEN 0
      ELSE CHOOSE k \in bad : \A j \in bad : k <= j

\* Mutant: each alert is written as it is found, inside the loops.
AlertsOnRaise_partial(table, found) == table \o found

\* The alerts table when the scan raises: the alerts found so far are in
\* the local list only, the write comes after the loops.
AlertsOnRaise(table, found) == table

\* The alerts table when to_sql raises: pandas runs the insert in one
\* transaction and rolls it back.
AlertsOnWriteError(table, found) == table

\* Mutant: rows the table already holds are not written again.
StoreAlerts_dedup(table, found) ==
  to_sql(table, SelectSeq(found, LAMBDA a : a \notin Range(table)))

\* if alerts: ... to_sql("alerts", if_exists="append")
StoreAlerts(table, found) == IF found # <<>> THEN to_sql(table, found) ELSE table

detect_anomalies(patient_id) ==
  /\ detects < MaxDetects
  /\ op' = "detect"
  /\ arg' = Arg(<<>>, patient_id)
  /\ Frame(1)
  /\ UNCHANGED vitals
  /\ LET df == Fetch(vitals, patient_id)
     IN  \/ /\ ret' = Raise("StorageError")          \* read_sql raises
            /\ UNCHANGED <<alerts, returned>>
         \/ /\ df = <<>>                              \* if df.empty: return []
            /\ ret' = Ret("ok", 0, <<>>, NoSummary)
            /\ UNCHANGED <<alerts, returned>>
         \/ /\ NoneColumn(df) # 0                     \* None column: TypeError
            /\ ret' = Raise("TypeError")
            /\ alerts' = AlertsOnRaise(alerts, ScanAlerts(df, 1, NoneColumn(df) - 1))
            /\ UNCHANGED returned
         \/ /\ df # <<>>                              \* the scan completes (NaN cells give no alert)
            /\ LET found == ScanAlerts(df, 1, Len(VITALS))
               IN  \/ /\ alerts' = StoreAlerts(alerts, found)
                      /\ ret' = Ret("ok", Len(found), found, NoSummary)
                      /\ returned' = returned + Len(found)
                   \/ /\ found # <<>>                 \* to_sql raises
                      /\ alerts' = AlertsOnWriteError(alerts, found)
                      /\ ret' = Raise("StorageError")
                      /\ UNCHANGED returned

\* ------------------------------------------------ get_patient_summary
Column(df, col) == [i \in DOMAIN df |-> df[i][col]]

\* The cells pandas aggregates: it skips NaN.
Present(xs) == SelectSeq(xs, LAMBDA x : ~IsNaN(x))

RECURSIVE Sum(_)
Sum(xs) == IF xs = <<>> THEN 0 ELSE Head(xs) + Sum(Tail(xs))

Min(xs) ==
  LET ys == Present(xs)
  IN  IF ys = <<>> THEN NaN ELSE CHOOSE x \in Range(ys) : \A y \in Range(ys) : x <= y

Max(xs) ==
  LET ys == Present(xs)
  IN  IF ys = <<>> THEN NaN ELSE CHOOSE x \in Range(ys) : \A y \in Range(ys) : x >= y

\* round(df[v].mean(), 2)
Mean2(xs) ==
  LET ys == Present(xs)
  IN  IF ys = <<>> THEN NaN ELSE RoundDiv(Sum(ys), Len(ys), 10)

\* The largest k in lo..hi with (10k - 5)^2 * den <= num (lo has it).
RECURSIVE NearestRoot(_, _, _, _)
NearestRoot(lo, hi, num, den) ==
  IF lo >= hi THEN lo
  ELSE LET mid == (lo + hi + 1) \div 2
       IN  IF (10 * mid - 5) * (10 * mid - 5) * den <= num
           THEN NearestRoot(mid, hi, num, den)
           ELSE NearestRoot(lo, mid - 1, num, den)

\* round(df[v].std(), 2): the sample standard deviation (ddof = 1) of the
\* cells present, NaN when fewer than two are; computed on the distances
\* to the least cell, which leaves the variance as it is.
Std2(xs) ==
  LET ys == Present(xs)
      n  == Len(ys)
      m  == Min(ys)
      ds == [i \in DOMAIN ys |-> ys[i] - m]
      sq == [i \in DOMAIN ys |-> ds[i] * ds[i]]
      num == n * Sum(sq) - Sum(ds) * Sum(ds)      \* variance = num / den
      den == n * (n - 1)
  IN  IF n < 2 THEN NaN
      ELSE 10 * NearestRoot(0, (Max(ys) - m) \div 5 + 1, num, den)

VitalStats(df, v) ==
  LET xs == Column(df, v)
  IN  [mean |-> Mean2(xs), min |-> Round2(Min(xs)), max |-> Round2(Max(xs)),
       std |-> IF Len(df) > 1 THEN Std2(xs) ELSE 0]

\* [float(df["timestamp"].min()), float(df["timestamp"].max())]
TimeRange(df) == <<Min(Column(df, "timestamp")), Max(Column(df, "timestamp"))>>

Summary(df, patient_id) ==
  IF df = <<>> THEN [patient_id |-> patient_id, records |-> 0]
  ELSE [patient_id |-> patient_id, records |-> Len(df),
        time_range |-> TimeRange(df),
        vitals_stats |-> [v \in Range(VITALS) |-> VitalStats(df, v)]]

get_patient_summary(patient_id) ==
  /\ op' = "summary"
  /\ arg' = Arg(<<>>, <<patient_id>>)
  /\ Frame(0)
  /\ UNCHANGED <<vitals, alerts, returned>>
  /\ LET df == Select(vitals, patient_id)
     IN  \/ ret' = Raise("StorageError")              \* read_sql raises
         \/ /\ NoneColumn(df) # 0                     \* None column: TypeError
            /\ ret' = Raise("TypeError")
         \/ ret' = Ret("ok", 0, <<>>, Summary(df, patient_id))

SummaryPatients == {"P001", "P002", "PXXX"}

Next ==
  \/ \E records \in Batches : ingest(records)
  \/ \E patient_id \in Filters : detect_anomalies(patient_id)
  \/ \E patient_id \in SummaryPatients : get_patient_summary(patient_id)

Spec == Init /\ [][Next]_vars

\* ------------------------------------------- the scan on wide readings
\* detect_anomalies applied once to a store whose record has readings at
\* the ends of the normal range and on both sides of the 0.5 cut-off.
Kinds == 1 .. 6

\* 1, 2: the ends of the range; 3, 5: half a span outside it (dev = 0.5);
\* 4, 6: a thousandth further out.  temperature, whose span 1.7 has no
\* exact half in binary floating point, takes 38.6, 40.5, 36.099, 35.2.
Reading(v, kind) ==
  LET low  == VITAL_RANGES[v][1]
      high == VITAL_RANGES[v][2]
      half == (high - low) \div 2
  IN  IF v = "temperature"
      THEN <<low, high, 38600, 40500, 36099, 35200>>[kind]
      ELSE <<low, high, high + half, high + half + 1,
             low - half, low - half - 1>>[kind]

\* The base record with up to two readings changed, or with all six of
\* one kind.
WideRecords ==
  { make_record((v :> Reading(v, j)) @@ (w :> Reading(w, k))) :
      v \in Range(VITALS), w \in Range(VITALS), j \in Kinds, k \in Kinds }
  \cup { make_record([v \in Range(VITALS) |-> Reading(v, k)]) : k \in Kinds }

\* The same with one reading absent: storable only next to a record that
\* has the key.
AbsentRecords ==
  { make_record((v :> NaN) @@ (w :> Reading(w, k))) :
      v \in Range(VITALS), w \in Range(VITALS), k \in Kinds }

InitScan ==
  /\ vitals \in {<<r>> : r \in WideRecords}
              \cup {<<r, Critical>> : r \in WideRecords}
              \cup {<<Critical, r>> : r \in WideRecords \cup AbsentRecords}
  /\ alerts = <<>>
  /\ op = "init"
  /\ arg = Arg(<<>>, None)
  /\ ret = Ret("ok", 0, <<>>, NoSummary)
  /\ prevVitals = vitals
  /\ prevAlerts = <<>>
  /\ returned = 0
  /\ detects = 0

NextScan ==
  /\ op = "init"
  /\ \E patient_id \in Filters : detect_anomalies(patient_id)

SpecScan == InitScan /\ [][NextScan]_vars

\* ------------------------------------------------------------- claims
\* The claims' own words for a reading and its normal range.
Low(v) == VITAL_RANGES[v][1]
High(v) == VITAL_RANGES[v][2]
Inside(x, v) == ~IsNaN(x) /\ Low(v) <= x /\ x <= High(v)
Outside(x, v) == ~IsNaN(x) /\ (x < Low(v) \/ x > High(v))
\* (value - high) or (low - value): the deviation times (high - low)
Excess(x, v) == IF x > High(v) THEN x - High(v) ELSE Low(v) - x

IsPrefix(s, t) == Len(s) <= Len(t) /\ SubSeq(t, 1, Len(s)) = s

Returned == ret.outcome = "ok"
\* The records the last detect_anomalies call scanned.
Scanned == Fetch(vitals, arg.patient_id)
\* The rows of the last call's patient, and the alerts of one record and vital.
RowsOf(p) == {i \in DOMAIN vitals : vitals[i].patient_id = p}
AlertsFor(list, row, v) ==
  {j \in DOMAIN list : /\ list[j].patient_id = row.patient_id
                       /\ list[j].timestamp = row.timestamp
                       /\ list[j].vital = v}

\* C1: for every record r that detect_anomalies scanned and every tracked
\* vital v, the returned list holds exactly one Alert per record with r's
\* patient and timestamp whose v is strictly below low_v or strictly above
\* high_v, and none for a value within [low_v, high_v], the two ends
\* included; every returned Alert is of a scanned record, so one record
\* yields between zero and six Alerts.
C1_AlertPerBreach ==
  (op = "detect" /\ Returned) =>
    /\ \A i \in DOMAIN Scanned : \A v \in Range(VITALS) :
         Cardinality(AlertsFor(ret.alerts, Scanned[i], v))
              = Cardinality({j \in DOMAIN Scanned :
                               /\ Scanned[j].patient_id = Scanned[i].patient_id
                               /\ Scanned[j].timestamp = Scanned[i].timestamp
                               /\ Outside(Scanned[j][v], v)})
    /\ \A j \in DOMAIN ret.alerts :
         \E i \in DOMAIN Scanned : j \in AlertsFor(ret.alerts, Scanned[i], ret.alerts[j].vital)
    /\ Len(ret.alerts) <= 6 * Len(Scanned)

\* A single scanned record with heart_rate at the upper end of its range
\* and another reading outside its range gives one Alert, not on heart_rate.
C1_Witness ==
  /\ op = "detect" /\ Returned
  /\ Len(Scanned) = 1
  /\ Scanned[1].heart_rate = High("heart_rate")
  /\ Len(ret.alerts) = 1
  /\ ret.alerts[1].vital # "heart_rate"

\* C2: every Alert detect_anomalies returns is "critical" exactly when the
\* reading it is about lies more than half a span outside its range,
\* 2 * (value - high) > high - low above it and 2 * (low - value) >
\* high - low below it, and "warning" otherwise, a deviation of exactly 0.5
\* included.
C2_SeverityCutoff ==
  (op = "detect" /\ Returned) =>
    \A i \in DOMAIN Scanned : \A v \in Range(VITALS) :
      Outside(Scanned[i][v], v) =>
        \A j \in AlertsFor(ret.alerts, Scanned[i], v) :
          ret.alerts[j].severity =
            IF 2 * Excess(Scanned[i][v], v) > High(v) - Low(v)
            THEN "critical" ELSE "warning"

\* heart_rate = 120 and heart_rate = 40 (deviation exactly 0.5) are warnings.
C2_Witness ==
  /\ op = "detect" /\ Returned
  /\ \E i \in DOMAIN Scanned :
       /\ Scanned[i].heart_rate \in {120000, 40000}
       /\ \E j \in AlertsFor(ret.alerts, Scanned[i], "heart_rate") :
            ret.alerts[j].severity = "warning"

\* C3: when detect_anomalies is given a patient filter p (any string) and
\* returns, every Alert it returns and every Alert it appends to the alert
\* store has patient_id = p, and when no stored record has patient_id = p
\* the result is the empty list.
C3_FilterExact ==
  (op = "detect" /\ arg.patient_id # None /\ Returned) =>
    LET p == arg.patient_id[1]
    IN  /\ \A j \in DOMAIN ret.alerts : ret.alerts[j].patient_id = p
        /\ \A j \in DOMAIN alerts : j > Len(prevAlerts) => alerts[j].patient_id = p
        /\ RowsOf(p) = {} => ret.alerts = <<>>

\* C4: when every scanned record has all six vitals within their ranges
\* (or no record is scanned) detect_anomalies returns the empty sequence
\* and the alert table is what it was before the call.
C4_NoWriteWhenInRange ==
  (op = "detect" /\ \A i \in DOMAIN Scanned : \A v \in Range(VITALS) : Inside(Scanned[i][v], v)) =>
    /\ ret.outcome \in {"ok", "StorageError"}
    /\ ret.alerts = <<>>
    /\ alerts = prevAlerts

\* An all-in-range scan on a store whose alert table already has rows.
C4_Witness ==
  /\ op = "detect" /\ Returned
  /\ Scanned # <<>>
  /\ \A i \in DOMAIN Scanned : \A v \in Range(VITALS) : Inside(Scanned[i][v], v)
  /\ prevAlerts # <<>>

\* C5: two detect_anomalies calls in a row with the same filter that both
\* return give the same Alert sequence, and the alert store then holds
\* both batches after what it held before the first; and at all times the
\* number of stored alerts is the total length of the sequences returned.
C5_RepeatAppends ==
  /\ [](Len(alerts) = returned)
  /\ [][ (/\ op = "detect" /\ Returned
          /\ op' = "detect" /\ ret'.outcome = "ok"
          /\ arg'.patient_id = arg.patient_id)
         => /\ ret'.alerts = ret.alerts
            /\ alerts' = prevAlerts \o ret.alerts \o ret.alerts ]_vars

\* The second of two identical non-empty batches has been stored.
C5_Witness ==
  /\ op = "detect" /\ Returned
  /\ ret.alerts # <<>>
  /\ alerts = ret.alerts \o ret.alerts

\* C6: after a detect_anomalies call the alert store holds what it held
\* before, followed by all the Alerts of the call when it returned and by
\* none of them when it raised (the fetch failed, the scan raised or the
\* batch write failed).
C6_AllOrNothing ==
  op = "detect" =>
    /\ Returned => alerts = prevAlerts \o ret.alerts
    /\ ~Returned => /\ alerts = prevAlerts
                    /\ ret.outcome \in {"StorageError", "TypeError"}

\* The call raised after its scan had already found an Alert.
C6_Witness ==
  /\ op = "detect" /\ ret.outcome = "TypeError"
  /\ \E i \in DOMAIN Scanned : Outside(Scanned[i].heart_rate, "heart_rate")
  /\ alerts = prevAlerts

\* C7: ingest of a batch in which some record lacks patient_id or one of
\* the six vitals raises ValueError and leaves the vitals store as it was,
\* so no stored record has an absent vital.
C7_IngestRejectsIncomplete ==
  /\ (op = "ingest" /\ \E i \in DOMAIN arg.batch :
                         \E c \in Range(REQUIRED_COLS) : ~Has(arg.batch[i], c))
       => (ret.outcome = "ValueError" /\ vitals = prevVitals)
  /\ \A i \in DOMAIN vitals : \A v \in Range(VITALS) : ~IsNaN(vitals[i][v])

\* C8: get_patient_summary for a patient with no stored record, the store
\* being readable, returns {patient_id, records = 0} and no other key,
\* whatever the other patients have stored.
C8_EmptySummary ==
  (op = "summary" /\ RowsOf(arg.patient_id[1]) = {} /\ ret.outcome # "StorageError") =>
    /\ Returned
    /\ DOMAIN ret.summary = {"patient_id", "records"}
    /\ ret.summary.patient_id = arg.patient_id[1]
    /\ ret.summary.records = 0

\* The summary of an unknown patient while other patients have records.
C8_Witness ==
  /\ op = "summary" /\ Returned
  /\ RowsOf(arg.patient_id[1]) = {}
  /\ Len(vitals) >= 2

\* C9: every call leaves the earlier alert rows in place as a prefix of
\* the table, only detect_anomalies adds rows, and every stored Alert has
\* a tracked vital, a severity of warning or critical, and the patient_id
\* and timestamp of a stored vitals record whose reading of that vital is
\* outside its normal range.
C9_AlertsAppendOnly ==
  /\ IsPrefix(prevAlerts, alerts)
  /\ alerts # prevAlerts => op = "detect"
  /\ \A j \in DOMAIN alerts :
       /\ alerts[j].vital \in Range(VITALS)
       /\ alerts[j].severity \in {"warning", "critical"}
       /\ \E i \in DOMAIN vitals :
            /\ vitals[i].patient_id = alerts[j].patient_id
            /\ vitals[i].timestamp = alerts[j].timestamp
            /\ Outside(vitals[i][alerts[j].vital], alerts[j].vital)

\* An ingest that stored a record while the alert table had two batches.
C9_Witness ==
  /\ op = "ingest" /\ Returned
  /\ Len(vitals) > Len(prevVitals)
  /\ Len(alerts) >= 2
  /\ detects = 2

\* a <= b on readings: false when either is NaN.
Leq(a, b) == ~IsNaN(a) /\ ~IsNaN(b) /\ a <= b

\* C10: get_patient_summary changes neither store, and for a patient with
\* at least one stored record the summary it returns has records = the
\* number of the patient's stored records, time_range = [least, greatest]
\* of their timestamps, min <= max for each vital, and std = 0.0 when the
\* patient has exactly one record.
C10_SummaryFresh ==
  op = "summary" =>
    /\ vitals = prevVitals
    /\ alerts = prevAlerts
    /\ (Returned /\ RowsOf(arg.patient_id[1]) # {}) =>
         LET rows == RowsOf(arg.patient_id[1])
             ts   == {vitals[i].timestamp : i \in rows} \ {NaN}
             s    == ret.summary
         IN  /\ s.records = Cardinality(rows)
             /\ ts # {} => /\ s.time_range[1] \in ts
                           /\ s.time_range[2] \in ts
                           /\ \A t \in ts : s.time_range[1] <= t /\ t <= s.time_range[2]
             /\ \A v \in Range(VITALS) : Leq(s.vitals_stats[v].min, s.vitals_stats[v].max)
             /\ Cardinality(rows) = 1 => \A v \in Range(VITALS) : s.vitals_stats[v].std = 0
====
